---- MODULE Spec2Model ----
(***************************************************************************)
(* testrail_py_wrapper: TestManager (get-or-create resolvers with a        *)
(* name -> ID cache), TestRailAPI (lookups by name with a second cache,    *)
(* creation calls) and APIClient (the transport with its GET cache),       *)
(* against a model of the remote TestRail service.                         *)
(*                                                                         *)
(* The coroutines run on one asyncio event loop: a task runs without       *)
(* interruption until it awaits the network (session.request in            *)
(* APIClient.request), and only then may another task run.  `cur` is the   *)
(* task that holds the loop; every step of the code is an action of the    *)
(* task that holds it.                                                     *)
(***************************************************************************)
EXTENDS Integers, Sequences, FiniteSets, TLC

VARIABLES
    srv,                \* the remote service's entities
    APIClient_cache,    \* APIClient.__cache: (method, endpoint, data) -> JSON
    TestRailAPI_cache,  \* TestRailAPI.__cache: key -> id, one dict for all types
    TestManager_cache,  \* TestManager.__cache: six dicts, key -> id
    task,               \* per task: position, return addresses, locals
    net,                \* per task: the HTTP request in flight and its response
    trace,              \* per task: history of its invocations and their requests
    cur,                \* the task that holds the event loop, or NoTask
    faults,             \* responses the remote service may still spoil
    scenario,           \* which callers and which remote state (fixed at the start)
    budget              \* per task: invocations its caller still makes

vars == <<srv, APIClient_cache, TestRailAPI_cache, TestManager_cache, task, net,
          trace, cur, faults, scenario, budget>>

(***************************************************************************)
(* Bounds.                                                                 *)
(***************************************************************************)
MaxCalls == 2       \* invocations one caller makes in sequence
MaxFaults == 1      \* responses the remote service spoils

\* Two callers share the singletons.
Tasks == {1, 2}
NoTask == 0

(***************************************************************************)
(* Python values.  None is modelled as an integer outside the IDs so that  *)
(* an "Optional[int]" stays comparable; the IDs of the service are >= 0.   *)
(***************************************************************************)
None == -1

\* `not x` for an Optional[int]: None and 0 are both falsy.
Truthy(x) == x # None /\ x # 0

\* dict[key] = value
Put(d, k, v) == (k :> v) @@ d

EmptyDict == <<>>

(***************************************************************************)
(* The remote service.  Lists keep the order the service reports them in.  *)
(***************************************************************************)
RECURSIVE MaxId(_)
MaxId(s) == IF s = <<>> THEN 0
            ELSE LET m == MaxId(Tail(s)) IN IF Head(s).id > m THEN Head(s).id ELSE m

NewId(s) == MaxId(s) + 1

HasId(s, id) == \E i \in 1..Len(s) : s[i].id = id

ById(s, id) == s[CHOOSE i \in 1..Len(s) : s[i].id = id]

\* The runs of all entries of all plans.
RECURSIVE AllRuns(_)
AllRuns(entries) == IF entries = <<>> THEN <<>>
                    ELSE Head(entries).runs \o AllRuns(Tail(entries))

NameList(s) == [i \in 1..Len(s) |-> [id |-> s[i].id, name |-> s[i].name]]
TitleList(s) == [i \in 1..Len(s) |-> [id |-> s[i].id, title |-> s[i].title]]

PlanBody(s, plan_id) ==
    LET es == SelectSeq(s.entries, LAMBDA e : e.plan_id = plan_id)
    IN  [id |-> plan_id,
         name |-> ById(s.plans, plan_id).name,
         entries |-> [i \in 1..Len(es) |-> [runs |-> NameList(es[i].runs)]]]

BadRequest(s) == [status |-> 400, body |-> [error |-> "invalid"], srv |-> s]
Ok(s, body) == [status |-> 200, body |-> body, srv |-> s]

\* Tests that a new case gets: one in every run of its suite that includes all cases.
NewTests(s, suite_id, title) ==
    LET rs == SelectSeq(AllRuns(s.entries),
                        LAMBDA r : r.suite_id = suite_id /\ r.include_all)
    IN  [i \in 1..Len(rs) |->
            [id |-> NewId(s.tests) + i - 1, title |-> title, run_id |-> rs[i].id]]

\* Tests that a new run gets: one for every case of its suite.
RunTests(s, suite_id, run_id) ==
    LET ss == SelectSeq(s.sections, LAMBDA x : x.suite_id = suite_id)
        cs == SelectSeq(s.cases, LAMBDA c : \E i \in 1..Len(ss) : ss[i].id = c.section_id)
    IN  [i \in 1..Len(cs) |->
            [id |-> NewId(s.tests) + i - 1, title |-> cs[i].title, run_id |-> run_id]]

\* What the service does with one request: its status, its body, its new state.
Handle(s, method, endpoint, data) ==
    LET e == endpoint[1] IN
    CASE method = "GET" /\ e = "get_projects" ->
            Ok(s, NameList(s.projects))
      [] method = "GET" /\ e = "get_suites" ->
            IF HasId(s.projects, endpoint[2])
            THEN Ok(s, NameList(SelectSeq(s.suites, LAMBDA x : x.project_id = endpoint[2])))
            ELSE BadRequest(s)
      [] method = "GET" /\ e = "get_plans" ->
            IF HasId(s.projects, endpoint[2])
            THEN Ok(s, NameList(SelectSeq(s.plans, LAMBDA x : x.project_id = endpoint[2])))
            ELSE BadRequest(s)
      [] method = "GET" /\ e = "get_plan" ->
            IF HasId(s.plans, endpoint[2])
            THEN Ok(s, PlanBody(s, endpoint[2]))
            ELSE BadRequest(s)
      [] method = "GET" /\ e = "get_sections" ->
            IF HasId(s.projects, endpoint[2]) /\ HasId(s.suites, endpoint[3])
            THEN Ok(s, NameList(SelectSeq(s.sections,
                        LAMBDA x : x.project_id = endpoint[2] /\ x.suite_id = endpoint[3])))
            ELSE BadRequest(s)
      [] method = "GET" /\ e = "get_tests" ->
            IF HasId(AllRuns(s.entries), endpoint[2])
            THEN Ok(s, TitleList(SelectSeq(s.tests, LAMBDA x : x.run_id = endpoint[2])))
            ELSE BadRequest(s)
      [] method = "POST" /\ e = "add_suite" ->
            IF HasId(s.projects, endpoint[2])
            THEN LET new == [id |-> NewId(s.suites), name |-> data.name,
                             project_id |-> endpoint[2]]
                 IN  Ok([s EXCEPT !.suites = Append(@, new)],
                        [id |-> new.id, name |-> new.name])
            ELSE BadRequest(s)
      [] method = "POST" /\ e = "add_plan" ->
            IF HasId(s.projects, endpoint[2])
            THEN LET new == [id |-> NewId(s.plans), name |-> data.name,
                             project_id |-> endpoint[2]]
                 IN  Ok([s EXCEPT !.plans = Append(@, new)],
                        [id |-> new.id, name |-> new.name])
            ELSE BadRequest(s)
      [] method = "POST" /\ e = "add_plan_entry" ->
            IF HasId(s.plans, endpoint[2]) /\ HasId(s.suites, data.suite_id)
            THEN LET run == [id |-> NewId(AllRuns(s.entries)), name |-> data.name,
                             suite_id |-> data.suite_id, include_all |-> data.include_all]
                     new == [plan_id |-> endpoint[2], runs |-> <<run>>]
                 IN  Ok([s EXCEPT !.entries = Append(@, new),
                                  !.tests = @ \o RunTests(s, run.suite_id, run.id)],
                        [name |-> data.name, runs |-> NameList(new.runs)])
            ELSE BadRequest(s)
      [] method = "POST" /\ e = "add_section" ->
            IF HasId(s.projects, endpoint[2]) /\ HasId(s.suites, data.suite_id)
            THEN LET new == [id |-> NewId(s.sections), name |-> data.name,
                             project_id |-> endpoint[2], suite_id |-> data.suite_id]
                 IN  Ok([s EXCEPT !.sections = Append(@, new)],
                        [id |-> new.id, name |-> new.name])
            ELSE BadRequest(s)
      [] method = "POST" /\ e = "add_case" ->
            IF HasId(s.sections, endpoint[2])
            THEN LET new == [id |-> NewId(s.cases), title |-> data.title,
                             section_id |-> endpoint[2]]
                 IN  Ok([s EXCEPT !.cases = Append(@, new),
                                  !.tests = @ \o NewTests(s,
                                        ById(s.sections, endpoint[2]).suite_id, data.title)],
                        [id |-> new.id, title |-> new.title])
            ELSE BadRequest(s)
      [] method = "POST" /\ e = "add_result" ->
            IF HasId(s.tests, endpoint[2])
            THEN LET new == [id |-> NewId(s.results), test_id |-> endpoint[2],
                             status |-> data.status]
                 IN  Ok([s EXCEPT !.results = Append(@, new)],
                        [id |-> new.id, test_id |-> new.test_id])
            ELSE BadRequest(s)
      [] OTHER -> BadRequest(s)

(***************************************************************************)
(* Tasks.  A task is a caller's coroutine: idle, or inside an invocation   *)
(* at position pc, with the positions to return to in stack and the        *)
(* arguments and local variables of the functions on its way in loc (no    *)
(* function is entered twice at once, so one record holds them all).       *)
(* ret is the value the last call returned.                                *)
(***************************************************************************)
NoArgs ==
    [name |-> "", project_name |-> "", plan_name |-> "", suite_name |-> "", run_name |-> "",
     case_title |-> "", section_title |-> "", result |-> <<>>,
     project_id |-> None, plan_id |-> None, suite_id |-> None, run_id |-> None,
     section_id |-> None, test_id |-> None, no_cache |-> FALSE,
     req |-> [method |-> "", endpoint |-> <<>>, data |-> <<>>, no_cache |-> FALSE]]

IdleTask == [pc |-> "idle", stack |-> <<>>, loc |-> NoArgs, ret |-> None, dirty |-> FALSE]

\* the status of an exchange that produced no response
NoStatus == 0

NetIdle == [state |-> "idle", status |-> NoStatus, body |-> <<>>, spoilt |-> FALSE]

Idle(t) == task[t].pc = "idle"

\* Task t holds the event loop and stands at `label`.
At(t, label) == cur = t /\ task[t].pc = label

Goto(t, label, loc) ==
    task' = [task EXCEPT ![t] = [@ EXCEPT !.pc = label, !.loc = loc]]

\* await callee(...): enter it, and come back at `back` with its value in ret.
CallFn(t, callee, back, loc) ==
    task' = [task EXCEPT ![t] = [@ EXCEPT !.pc = callee, !.stack = <<back>> \o @, !.loc = loc]]

(***************************************************************************)
(* History of the invocations (not program state): per task, one record    *)
(* per invocation with the requests APIClient.request was asked for, each  *)
(* marked remote or served from the cache, and how the invocation ended.   *)
(* overlaps: the invocations of other tasks that ran while this one ran;   *)
(* adjacent: no other task ran one since this task's previous invocation   *)
(* ended; cold: all caches were empty when it started.                     *)
(***************************************************************************)
Last(tr, t) == tr[t][Len(tr[t])]

UpdLast(tr, t, r) == [tr EXCEPT ![t] = [@ EXCEPT ![Len(@)] = r]]

Log(tr, t, e) == UpdLast(tr, t, [Last(tr, t) EXCEPT !.reqs = Append(@, e)])

Answer(tr, t, status, body, spoilt) ==
    LET r == Last(tr, t)
        n == Len(r.reqs)
    IN  UpdLast(tr, t, [r EXCEPT !.reqs[n].status = status, !.reqs[n].body = body,
                                 !.reqs[n].spoilt = spoilt])

Close(tr, t, status, value, error) ==
    UpdLast(tr, t, [Last(tr, t) EXCEPT !.status = status, !.value = value, !.error = error])

OthersIdle(t) == \A u \in Tasks \ {t} : Idle(u)

\* return v: to the caller's position, or out of the invocation.
Returned(t, v, tr) ==
    IF task[t].stack = <<>>
    THEN /\ task' = [task EXCEPT ![t] = [IdleTask EXCEPT !.dirty = ~OthersIdle(t)]]
         /\ trace' = Close(tr, t, "returned", v, "")
         /\ cur' = NoTask
    ELSE /\ task' = [task EXCEPT ![t] = [@ EXCEPT !.pc = Head(task[t].stack),
                                                   !.stack = Tail(task[t].stack),
                                                   !.ret = v]]
         /\ trace' = tr
         /\ cur' = t

\* A failure that kept hold of what the other tasks wait for.
Raised_holding(t, error, tr) ==
    /\ task' = [task EXCEPT ![t] = [IdleTask EXCEPT !.dirty = ~OthersIdle(t)]]
    /\ trace' = Close(tr, t, "raised", None, error)
    /\ cur' = t

\* raise: no function of the repository catches, so the invocation ends.
Raised(t, error, tr) ==
    /\ task' = [task EXCEPT ![t] = [IdleTask EXCEPT !.dirty = ~OthersIdle(t)]]
    /\ trace' = Close(tr, t, "raised", None, error)
    /\ cur' = NoTask

(***************************************************************************)
(* APIClient.request                                                       *)
(***************************************************************************)
\* cache_key = (method, endpoint, frozenset(data.items()) if data else None)
cache_key(req) == <<req.method, req.endpoint, req.data>>

\* if not no_cache and method == "GET" and cache_key in self.__cache
CacheHit(req, cache) ==
    ~req.no_cache /\ req.method = "GET" /\ cache_key(req) \in DOMAIN cache

\* A transport that stored the response of every method.
CacheStore_any(req, result, cache) == Put(cache, cache_key(req), result)

\* if method == "GET": self.__cache[cache_key] = result
CacheStore(req, result, cache) ==
    IF req.method = "GET" THEN Put(cache, cache_key(req), result) ELSE cache

LogEntry(req, remote, status, body) ==
    [method |-> req.method, endpoint |-> req.endpoint, data |-> req.data,
     no_cache |-> req.no_cache, remote |-> remote, status |-> status, body |-> body,
     spoilt |-> FALSE]

\* Entry: a cache hit returns at once; otherwise the request goes out and the
\* task gives the event loop up until the response is there.
request(t) ==
    /\ At(t, "request")
    /\ LET req == task[t].loc.req IN
       IF CacheHit(req, APIClient_cache)
       THEN /\ Returned(t, APIClient_cache[cache_key(req)],
                        Log(trace, t, LogEntry(req, FALSE, "hit", APIClient_cache[cache_key(req)])))
            /\ UNCHANGED net
       ELSE /\ net' = [net EXCEPT ![t] = [NetIdle EXCEPT !.state = "sent"]]
            /\ task' = [task EXCEPT ![t] = [@ EXCEPT !.pc = "request_await"]]
            /\ trace' = Log(trace, t, LogEntry(req, TRUE, "sent", <<>>))
            /\ cur' = NoTask
    /\ UNCHANGED <<srv, APIClient_cache, TestRailAPI_cache, TestManager_cache,
                   faults, scenario, budget>>

\* A transport that sent a failed request again instead of raising.
request_response_retrying(t) ==
    /\ cur = NoTask
    /\ task[t].pc = "request_await"
    /\ net[t].state = "resp"
    /\ LET req == task[t].loc.req
           result == net[t].body
       IN  IF net[t].status # 200
           THEN /\ task' = [task EXCEPT ![t] = [@ EXCEPT !.pc = "request"]]
                /\ trace' = Answer(trace, t, "error", result, net[t].spoilt)
                /\ cur' = t
                /\ UNCHANGED APIClient_cache
           ELSE /\ APIClient_cache' = CacheStore(req, result, APIClient_cache)
                /\ Returned(t, result, Answer(trace, t, "ok", result, net[t].spoilt))
    /\ net' = [net EXCEPT ![t] = NetIdle]
    /\ UNCHANGED <<srv, TestRailAPI_cache, TestManager_cache, faults, scenario, budget>>

\* A transport that stored the body before looking at the status.
request_response_storing(t) ==
    /\ cur = NoTask
    /\ task[t].pc = "request_await"
    /\ net[t].state = "resp"
    /\ LET req == task[t].loc.req
           result == net[t].body
       IN  /\ APIClient_cache' = CacheStore(req, result, APIClient_cache)
           /\ IF net[t].status = NoStatus
              THEN Raised(t, "ClientError", Answer(trace, t, "error", result, net[t].spoilt))
              ELSE IF net[t].status # 200
              THEN Raised(t, "RuntimeError", Answer(trace, t, "error", result, net[t].spoilt))
              ELSE Returned(t, result, Answer(trace, t, "ok", result, net[t].spoilt))
    /\ net' = [net EXCEPT ![t] = NetIdle]
    /\ UNCHANGED <<srv, TestRailAPI_cache, TestManager_cache, faults, scenario, budget>>

\* The response is there and the event loop resumes the task.
request_response(t) ==
    /\ cur = NoTask
    /\ task[t].pc = "request_await"
    /\ net[t].state = "resp"
    /\ LET req == task[t].loc.req
           result == net[t].body
       IN  IF net[t].status = NoStatus
           THEN /\ Raised(t, "ClientError", Answer(trace, t, "error", result, net[t].spoilt))
                /\ UNCHANGED APIClient_cache
           ELSE IF net[t].status # 200
           THEN /\ Raised(t, "RuntimeError", Answer(trace, t, "error", result, net[t].spoilt))
                /\ UNCHANGED APIClient_cache
           ELSE /\ APIClient_cache' = CacheStore(req, result, APIClient_cache)
                /\ Returned(t, result, Answer(trace, t, "ok", result, net[t].spoilt))
    /\ net' = [net EXCEPT ![t] = NetIdle]
    /\ UNCHANGED <<srv, TestRailAPI_cache, TestManager_cache, faults, scenario, budget>>

(***************************************************************************)
(* The remote service answers one request in flight.  It may answer with   *)
(* a non-success status, or with status 200 and a body without the fields  *)
(* the client reads (only where the client expects a dict); or the         *)
(* connection fails and session.request raises without any response.       *)
(***************************************************************************)
ExpectsDict(req) == req.method = "POST" \/ req.endpoint[1] = "get_plan"

Serve(t) ==
    /\ net[t].state = "sent"
    /\ LET req == task[t].loc.req IN
       \/ LET h == Handle(srv, req.method, req.endpoint, req.data) IN
          /\ srv' = h.srv
          /\ net' = [net EXCEPT ![t] = [state |-> "resp", status |-> h.status,
                                        body |-> h.body, spoilt |-> FALSE]]
          /\ UNCHANGED faults
       \/ /\ faults > 0
          /\ faults' = faults - 1
          /\ net' = [net EXCEPT ![t] = [state |-> "resp", status |-> 500,
                                        body |-> [error |-> "internal"], spoilt |-> TRUE]]
          /\ UNCHANGED srv
       \/ /\ faults > 0
          /\ ExpectsDict(req)
          /\ faults' = faults - 1
          /\ net' = [net EXCEPT ![t] = [state |-> "resp", status |-> 200,
                                        body |-> [error |-> "malformed"], spoilt |-> TRUE]]
          /\ UNCHANGED srv
       \/ /\ faults > 0
          /\ faults' = faults - 1
          /\ net' = [net EXCEPT ![t] = [state |-> "resp", status |-> NoStatus,
                                        body |-> [error |-> "connection"], spoilt |-> TRUE]]
          /\ UNCHANGED srv
    /\ UNCHANGED <<APIClient_cache, TestRailAPI_cache, TestManager_cache, task, trace,
                   cur, scenario, budget>>

(***************************************************************************)
(* The caller cancels a task that is suspended in the await of its         *)
(* request: CancelledError is raised at the await and unwinds the          *)
(* invocation.  The remote has seen the request or not.                    *)
(***************************************************************************)
Cancel(t) ==
    /\ cur = NoTask
    /\ task[t].pc = "request_await"
    /\ faults > 0
    /\ faults' = faults - 1
    /\ Raised(t, "CancelledError",
              Answer(trace, t, "cancelled", [error |-> "cancelled"], TRUE))
    /\ net' = [net EXCEPT ![t] = NetIdle]
    /\ UNCHANGED <<srv, APIClient_cache, TestRailAPI_cache, TestManager_cache, scenario,
                   budget>>

(***************************************************************************)
(* TestRailAPI: the requests of its pass-through methods.  Endpoints are   *)
(* kept as (path, ids...) instead of the formatted string.                 *)
(***************************************************************************)
Get(endpoint, no_cache) ==
    [method |-> "GET", endpoint |-> endpoint, data |-> <<>>, no_cache |-> no_cache]

\* request(...) without no_cache: the default, False.
Post(endpoint, data) ==
    [method |-> "POST", endpoint |-> endpoint, data |-> data, no_cache |-> FALSE]

get_plan(plan_id, no_cache) == Get(<<"get_plan", plan_id>>, no_cache)
get_projects(no_cache) == Get(<<"get_projects">>, no_cache)
get_suites(project_id, no_cache) == Get(<<"get_suites", project_id>>, no_cache)
get_sections(project_id, suite_id, no_cache) ==
    Get(<<"get_sections", project_id, suite_id>>, no_cache)
get_plans(project_id, no_cache) == Get(<<"get_plans", project_id>>, no_cache)
get_tests(run_id, no_cache) == Get(<<"get_tests", run_id>>, no_cache)

\* A scan that kept the last match instead of the first.
last_by_name(items, name) ==
    LET I == {i \in 1..Len(items) : items[i].name = name}
    IN  IF I = {} THEN None ELSE items[CHOOSE i \in I : \A j \in I : i >= j].id

\* next((s for s in items if s and s.get('name') == name), None), then .get('id')
first_by_name(items, name) ==
    LET I == {i \in 1..Len(items) : items[i].name = name}
    IN  IF I = {} THEN None ELSE items[CHOOSE i \in I : \A j \in I : i <= j].id

\* the same over 'title' (tests)
first_by_title(items, title) ==
    LET I == {i \in 1..Len(items) : items[i].title = title}
    IN  IF I = {} THEN None ELSE items[CHOOSE i \in I : \A j \in I : i <= j].id

\* for entry in test_plan["entries"]: for run in entry.get("runs", []): first match
RECURSIVE first_run(_, _)
first_run(entries, run_name) ==
    IF entries = <<>> THEN None
    ELSE IF \E i \in 1..Len(Head(entries).runs) : Head(entries).runs[i].name = run_name
         THEN first_by_name(Head(entries).runs, run_name)
         ELSE first_run(Tail(entries), run_name)

\* if not no_cache and cache_key in self.__cache
UseCached(no_cache, key, cache) == ~no_cache /\ key \in DOMAIN cache

\* if x_id is not None: self.__cache[cache_key] = x_id
Remember(cache, key, id) == IF id # None THEN Put(cache, key, id) ELSE cache

\* First half of a get_*_id_by_name: answer from TestRailAPI.__cache, or ask.
LookupEnter(t, key, req, scan) ==
    /\ IF UseCached(task[t].loc.no_cache, key, TestRailAPI_cache)
       THEN Returned(t, TestRailAPI_cache[key], trace)
       ELSE /\ CallFn(t, "request", scan, [task[t].loc EXCEPT !.req = req])
            /\ UNCHANGED <<trace, cur>>
    /\ UNCHANGED <<srv, net, faults, scenario, budget, APIClient_cache, TestRailAPI_cache,
                   TestManager_cache>>

\* Second half: the ID found in the response (None if none), remembered if any.
LookupLeave(t, key, id) ==
    /\ TestRailAPI_cache' = Remember(TestRailAPI_cache, key, id)
    /\ Returned(t, id, trace)
    /\ UNCHANGED <<srv, net, faults, scenario, budget, APIClient_cache, TestManager_cache>>

api_get_run_id_by_name(t) ==
    /\ At(t, "api_get_run_id_by_name")
    /\ LET l == task[t].loc IN
       LookupEnter(t, <<l.plan_id, l.run_name>>, get_plan(l.plan_id, l.no_cache),
                   "api_get_run_id_by_name_scan")

\* get_plan: response if response and "id" in response else None; then
\* if not test_plan or "entries" not in test_plan: return None
api_get_run_id_by_name_scan(t) ==
    /\ At(t, "api_get_run_id_by_name_scan")
    /\ LET l == task[t].loc
           response == task[t].ret
           run_id == IF "id" \in DOMAIN response /\ "entries" \in DOMAIN response
                     THEN first_run(response.entries, l.run_name)
                     ELSE None
       IN  LookupLeave(t, <<l.plan_id, l.run_name>>, run_id)

\* The project's key is the bare name; it is wrapped to keep the keys of the
\* one dict comparable, and no (id, name) tuple equals it.
api_get_project_id_by_name(t) ==
    /\ At(t, "api_get_project_id_by_name")
    /\ LET l == task[t].loc IN
       LookupEnter(t, <<l.name>>, get_projects(l.no_cache), "api_get_project_id_by_name_scan")

api_get_project_id_by_name_scan(t) ==
    /\ At(t, "api_get_project_id_by_name_scan")
    /\ LET l == task[t].loc
           projects == task[t].ret
       IN  LookupLeave(t, <<l.name>>,
                       IF projects = <<>> THEN None ELSE first_by_name(projects, l.name))

api_get_suite_id_by_name(t) ==
    /\ At(t, "api_get_suite_id_by_name")
    /\ LET l == task[t].loc IN
       LookupEnter(t, <<l.project_id, l.suite_name>>, get_suites(l.project_id, l.no_cache),
                   "api_get_suite_id_by_name_scan")

api_get_suite_id_by_name_scan(t) ==
    /\ At(t, "api_get_suite_id_by_name_scan")
    /\ LET l == task[t].loc
           suites == task[t].ret
       IN  LookupLeave(t, <<l.project_id, l.suite_name>>,
                       IF suites = <<>> THEN None ELSE first_by_name(suites, l.suite_name))

api_get_section_id_by_name(t) ==
    /\ At(t, "api_get_section_id_by_name")
    /\ LET l == task[t].loc IN
       LookupEnter(t, <<l.project_id, l.suite_id, l.section_title>>,
                   get_sections(l.project_id, l.suite_id, l.no_cache),
                   "api_get_section_id_by_name_scan")

api_get_section_id_by_name_scan(t) ==
    /\ At(t, "api_get_section_id_by_name_scan")
    /\ LET l == task[t].loc
           sections == task[t].ret
       IN  LookupLeave(t, <<l.project_id, l.suite_id, l.section_title>>,
                       IF sections = <<>> THEN None
                       ELSE first_by_name(sections, l.section_title))

api_get_plan_id_by_name(t) ==
    /\ At(t, "api_get_plan_id_by_name")
    /\ LET l == task[t].loc IN
       LookupEnter(t, <<l.project_id, l.plan_name>>, get_plans(l.project_id, l.no_cache),
                   "api_get_plan_id_by_name_scan")

api_get_plan_id_by_name_scan(t) ==
    /\ At(t, "api_get_plan_id_by_name_scan")
    /\ LET l == task[t].loc
           plans == task[t].ret
       IN  LookupLeave(t, <<l.project_id, l.plan_name>>,
                       IF plans = <<>> THEN None ELSE first_by_name(plans, l.plan_name))

api_get_test_id_by_name(t) ==
    /\ At(t, "api_get_test_id_by_name")
    /\ LET l == task[t].loc IN
       LookupEnter(t, <<l.run_id, l.case_title>>, get_tests(l.run_id, l.no_cache),
                   "api_get_test_id_by_name_scan")

api_get_test_id_by_name_scan(t) ==
    /\ At(t, "api_get_test_id_by_name_scan")
    /\ LET l == task[t].loc
           tests == task[t].ret
       IN  LookupLeave(t, <<l.run_id, l.case_title>>,
                       IF tests = <<>> THEN None ELSE first_by_title(tests, l.case_title))

(***************************************************************************)
(* TestRailAPI: the creation calls and add_result.                         *)
(***************************************************************************)
CreateEnter(t, req, back) ==
    /\ CallFn(t, "request", back, [task[t].loc EXCEPT !.req = req])
    /\ UNCHANGED <<trace, cur, srv, net, faults, scenario, budget, APIClient_cache,
                   TestRailAPI_cache, TestManager_cache>>

CreateLeave(t, v) ==
    /\ Returned(t, v, trace)
    /\ UNCHANGED <<srv, net, faults, scenario, budget, APIClient_cache, TestRailAPI_cache,
                   TestManager_cache>>

\* A creation that dropped the ID of its response.
no_id(new) == None

\* new.get('id', None) / None if 'id' not in new / new['id']
id_of(new) == IF "id" \in DOMAIN new THEN new.id ELSE None

api_create_test_case(t) ==
    /\ At(t, "api_create_test_case")
    /\ LET l == task[t].loc IN
       CreateEnter(t, Post(<<"add_case", l.section_id>>,
                           [title |-> l.case_title, custom_steps |-> l.case_title]),
                   "api_create_test_case_ret")

api_create_test_case_ret(t) ==
    /\ At(t, "api_create_test_case_ret")
    /\ CreateLeave(t, id_of(task[t].ret))

api_create_section(t) ==
    /\ At(t, "api_create_section")
    /\ LET l == task[t].loc IN
       CreateEnter(t, Post(<<"add_section", l.project_id>>,
                           [suite_id |-> l.suite_id, name |-> l.section_title]),
                   "api_create_section_ret")

api_create_section_ret(t) ==
    /\ At(t, "api_create_section_ret")
    /\ CreateLeave(t, id_of(task[t].ret))

api_create_suite(t) ==
    /\ At(t, "api_create_suite")
    /\ LET l == task[t].loc IN
       CreateEnter(t, Post(<<"add_suite", l.project_id>>,
                           [name |-> l.suite_name,
                            description |-> "Created automatically by script"]),
                   "api_create_suite_ret")

api_create_suite_ret(t) ==
    /\ At(t, "api_create_suite_ret")
    /\ CreateLeave(t, id_of(task[t].ret))

api_add_result(t) ==
    /\ At(t, "api_add_result")
    /\ LET l == task[t].loc IN
       CreateEnter(t, Post(<<"add_result", l.test_id>>, l.result), "api_add_result_ret")

api_add_result_ret(t) ==
    /\ At(t, "api_add_result_ret")
    /\ CreateLeave(t, task[t].ret)

api_add_plan(t) ==
    /\ At(t, "api_add_plan")
    /\ LET l == task[t].loc IN
       CreateEnter(t, Post(<<"add_plan", l.project_id>>,
                           [name |-> l.plan_name,
                            description |-> "Created automatically by script"]),
                   "api_add_plan_ret")

api_add_plan_ret(t) ==
    /\ At(t, "api_add_plan_ret")
    /\ CreateLeave(t, id_of(task[t].ret))

\* entry_data is what get_or_create_run_id passes.
\* An entry added for a selection of cases, without a description.
api_add_plan_entry_selected(t) ==
    /\ At(t, "api_add_plan_entry")
    /\ LET l == task[t].loc IN
       CreateEnter(t, Post(<<"add_plan_entry", l.plan_id>>,
                           [name |-> l.run_name, suite_id |-> l.suite_id,
                            include_all |-> FALSE]),
                   "api_add_plan_entry_ret")

api_add_plan_entry(t) ==
    /\ At(t, "api_add_plan_entry")
    /\ LET l == task[t].loc IN
       CreateEnter(t, Post(<<"add_plan_entry", l.plan_id>>,
                           [name |-> l.run_name, suite_id |-> l.suite_id,
                            include_all |-> TRUE, description |-> "Created automatically"]),
                   "api_add_plan_entry_ret")

\* if not new_run or "runs" not in new_run: return None;
\* return new_run["runs"][0]["id"]  (IndexError on an empty list of runs)
api_add_plan_entry_ret(t) ==
    /\ At(t, "api_add_plan_entry_ret")
    /\ LET new_run == task[t].ret IN
       IF "runs" \notin DOMAIN new_run
       THEN CreateLeave(t, None)
       ELSE IF new_run.runs = <<>>
            THEN /\ Raised(t, "IndexError", trace)
                 /\ UNCHANGED <<srv, net, faults, scenario, budget, APIClient_cache,
                                TestRailAPI_cache, TestManager_cache>>
            ELSE CreateLeave(t, new_run.runs[1].id)

(***************************************************************************)
(* TestManager.  The keys f"{project_id}_{name}" are kept as tuples: an    *)
(* ID (or None) is rendered without "_", so within one dict two keys are   *)
(* equal as strings exactly when their tuples are equal.                   *)
(***************************************************************************)
EmptyCaches ==
    [projects |-> EmptyDict, suites |-> EmptyDict, plans |-> EmptyDict,
     runs |-> EmptyDict, tests |-> EmptyDict, sections |-> EmptyDict]

\* A manager that forgot what it resolved.
Store_nothing(cache, dict, key, id) == cache

\* self.__cache[dict][key] = id
Store(cache, dict, key, id) == [cache EXCEPT ![dict] = Put(@, key, id)]

Unchanged_but_manager == UNCHANGED <<srv, net, faults, scenario, budget, APIClient_cache,
                                     TestRailAPI_cache>>

\* if key not in self.__cache[dict]: look it up ...; return self.__cache[dict][key]
ResolveEnter(t, dict, key, lookup, back) ==
    /\ IF key \notin DOMAIN TestManager_cache[dict]
       THEN /\ CallFn(t, lookup, back, task[t].loc)
            /\ UNCHANGED <<trace, cur>>
       ELSE Returned(t, TestManager_cache[dict][key], trace)
    /\ UNCHANGED TestManager_cache
    /\ Unchanged_but_manager

\* x_id = await lookup(...) or await create(...): the creation call is made
\* when the lookup's value is falsy.
ResolveLookedUp(t, dict, key, create, back) ==
    /\ IF Truthy(task[t].ret)
       THEN /\ TestManager_cache' = Store(TestManager_cache, dict, key, task[t].ret)
            /\ Returned(t, task[t].ret, trace)
       ELSE /\ CallFn(t, create, back, task[t].loc)
            /\ UNCHANGED <<trace, cur, TestManager_cache>>
    /\ Unchanged_but_manager

\* self.__cache[dict][key] = x_id with the creation call's value, whatever it is.
ResolveCreated(t, dict, key) ==
    /\ TestManager_cache' = Store(TestManager_cache, dict, key, task[t].ret)
    /\ Returned(t, task[t].ret, trace)
    /\ Unchanged_but_manager

get_project_id_by_name(t) ==
    /\ At(t, "get_project_id_by_name")
    /\ ResolveEnter(t, "projects", task[t].loc.name, "api_get_project_id_by_name",
                    "get_project_id_by_name_ret")

\* if not project_id: return None; else cache and return
get_project_id_by_name_ret(t) ==
    /\ At(t, "get_project_id_by_name_ret")
    /\ IF ~Truthy(task[t].ret)
       THEN /\ Returned(t, None, trace)
            /\ UNCHANGED TestManager_cache
       ELSE /\ TestManager_cache' = Store(TestManager_cache, "projects", task[t].loc.name,
                                          task[t].ret)
            /\ Returned(t, task[t].ret, trace)
    /\ Unchanged_but_manager

suite_key(l) == <<l.project_id, l.suite_name>>

get_or_create_suite_id(t) ==
    /\ At(t, "get_or_create_suite_id")
    /\ ResolveEnter(t, "suites", suite_key(task[t].loc), "api_get_suite_id_by_name",
                    "get_or_create_suite_id_or")

get_or_create_suite_id_or(t) ==
    /\ At(t, "get_or_create_suite_id_or")
    /\ ResolveLookedUp(t, "suites", suite_key(task[t].loc), "api_create_suite",
                       "get_or_create_suite_id_set")

get_or_create_suite_id_set(t) ==
    /\ At(t, "get_or_create_suite_id_set")
    /\ ResolveCreated(t, "suites", suite_key(task[t].loc))

plan_key(l) == <<l.project_id, l.plan_name>>

get_or_create_plan_id(t) ==
    /\ At(t, "get_or_create_plan_id")
    /\ ResolveEnter(t, "plans", plan_key(task[t].loc), "api_get_plan_id_by_name",
                    "get_or_create_plan_id_or")

get_or_create_plan_id_or(t) ==
    /\ At(t, "get_or_create_plan_id_or")
    /\ ResolveLookedUp(t, "plans", plan_key(task[t].loc), "api_add_plan",
                       "get_or_create_plan_id_set")

get_or_create_plan_id_set(t) ==
    /\ At(t, "get_or_create_plan_id_set")
    /\ ResolveCreated(t, "plans", plan_key(task[t].loc))

run_key(l) == <<l.plan_id, l.run_name>>

get_or_create_run_id(t) ==
    /\ At(t, "get_or_create_run_id")
    /\ ResolveEnter(t, "runs", run_key(task[t].loc), "api_get_run_id_by_name",
                    "get_or_create_run_id_if")

\* if not run_id: run_id = await self.api.add_plan_entry(...)
get_or_create_run_id_if(t) ==
    /\ At(t, "get_or_create_run_id_if")
    /\ ResolveLookedUp(t, "runs", run_key(task[t].loc), "api_add_plan_entry",
                       "get_or_create_run_id_set")

get_or_create_run_id_set(t) ==
    /\ At(t, "get_or_create_run_id_set")
    /\ ResolveCreated(t, "runs", run_key(task[t].loc))

section_key(l) == <<l.project_id, l.suite_id, l.section_title>>

get_or_create_section_id(t) ==
    /\ At(t, "get_or_create_section_id")
    /\ ResolveEnter(t, "sections", section_key(task[t].loc), "api_get_section_id_by_name",
                    "get_or_create_section_id_or")

get_or_create_section_id_or(t) ==
    /\ At(t, "get_or_create_section_id_or")
    /\ ResolveLookedUp(t, "sections", section_key(task[t].loc), "api_create_section",
                       "get_or_create_section_id_set")

get_or_create_section_id_set(t) ==
    /\ At(t, "get_or_create_section_id_set")
    /\ ResolveCreated(t, "sections", section_key(task[t].loc))

test_key(l) == <<l.run_id, l.case_title>>

get_or_create_test_id(t) ==
    /\ At(t, "get_or_create_test_id")
    /\ ResolveEnter(t, "tests", test_key(task[t].loc), "api_get_test_id_by_name",
                    "get_or_create_test_id_if")

\* if not test_id: section_id = await self.get_or_create_section_id(...)
get_or_create_test_id_if(t) ==
    /\ At(t, "get_or_create_test_id_if")
    /\ IF Truthy(task[t].ret)
       THEN /\ TestManager_cache' = Store(TestManager_cache, "tests", test_key(task[t].loc),
                                          task[t].ret)
            /\ Returned(t, task[t].ret, trace)
       ELSE /\ CallFn(t, "get_or_create_section_id", "get_or_create_test_id_create",
                      task[t].loc)
            /\ UNCHANGED <<trace, cur, TestManager_cache>>
    /\ Unchanged_but_manager

\* await self.api.create_test_case(section_id, case_title, case_title)
get_or_create_test_id_create(t) ==
    /\ At(t, "get_or_create_test_id_create")
    /\ CallFn(t, "api_create_test_case", "get_or_create_test_id_again",
              [task[t].loc EXCEPT !.section_id = task[t].ret])
    /\ UNCHANGED <<trace, cur, TestManager_cache>>
    /\ Unchanged_but_manager

\* test_id = await self.api.get_test_id_by_name(run_id, case_title)
get_or_create_test_id_again(t) ==
    /\ At(t, "get_or_create_test_id_again")
    /\ CallFn(t, "api_get_test_id_by_name", "get_or_create_test_id_check", task[t].loc)
    /\ UNCHANGED <<trace, cur, TestManager_cache>>
    /\ Unchanged_but_manager

\* if not test_id: raise ValueError; self.__cache["tests"][key] = test_id
\* A resolver that stored and returned whatever the second lookup gave.
get_or_create_test_id_check_lenient(t) ==
    /\ At(t, "get_or_create_test_id_check")
    /\ TestManager_cache' = Store(TestManager_cache, "tests", test_key(task[t].loc),
                                  task[t].ret)
    /\ Returned(t, task[t].ret, trace)
    /\ Unchanged_but_manager

get_or_create_test_id_check(t) ==
    /\ At(t, "get_or_create_test_id_check")
    /\ IF ~Truthy(task[t].ret)
       THEN /\ Raised(t, "ValueError", trace)
            /\ UNCHANGED TestManager_cache
       ELSE /\ TestManager_cache' = Store(TestManager_cache, "tests", test_key(task[t].loc),
                                          task[t].ret)
            /\ Returned(t, task[t].ret, trace)
    /\ Unchanged_but_manager

(***************************************************************************)
(* TestManager.add_result_to_case                                          *)
(***************************************************************************)
Step(t, callee, back, loc) ==
    /\ CallFn(t, callee, back, loc)
    /\ UNCHANGED <<trace, cur, TestManager_cache>>
    /\ Unchanged_but_manager

add_result_to_case(t) ==
    /\ At(t, "add_result_to_case")
    /\ Step(t, "get_project_id_by_name", "add_result_to_case_plan",
            [task[t].loc EXCEPT !.name = task[t].loc.project_name])

\* A submission that went on without the project.
add_result_to_case_plan_unchecked(t) ==
    /\ At(t, "add_result_to_case_plan")
    /\ Step(t, "get_or_create_plan_id", "add_result_to_case_suite",
            [task[t].loc EXCEPT !.project_id = task[t].ret])

\* if project_id is None: raise ValueError
add_result_to_case_plan(t) ==
    /\ At(t, "add_result_to_case_plan")
    /\ IF task[t].ret = None
       THEN /\ Raised(t, "ValueError", trace)
            /\ UNCHANGED TestManager_cache
            /\ Unchanged_but_manager
       ELSE Step(t, "get_or_create_plan_id", "add_result_to_case_suite",
                 [task[t].loc EXCEPT !.project_id = task[t].ret])

add_result_to_case_suite(t) ==
    /\ At(t, "add_result_to_case_suite")
    /\ Step(t, "get_or_create_suite_id", "add_result_to_case_run",
            [task[t].loc EXCEPT !.plan_id = task[t].ret])

\* A submission that named the run after the plan.
add_result_to_case_run_misnamed(t) ==
    /\ At(t, "add_result_to_case_run")
    /\ Step(t, "get_or_create_run_id", "add_result_to_case_test",
            [task[t].loc EXCEPT !.suite_id = task[t].ret,
                                !.run_name = task[t].loc.plan_name])

\* run_id = await self.get_or_create_run_id(plan_id, suite_name, suite_id)
add_result_to_case_run(t) ==
    /\ At(t, "add_result_to_case_run")
    /\ Step(t, "get_or_create_run_id", "add_result_to_case_test",
            [task[t].loc EXCEPT !.suite_id = task[t].ret,
                                !.run_name = task[t].loc.suite_name])

add_result_to_case_test(t) ==
    /\ At(t, "add_result_to_case_test")
    /\ Step(t, "get_or_create_test_id", "add_result_to_case_result",
            [task[t].loc EXCEPT !.run_id = task[t].ret])

\* A submission that reported success without sending the result.
add_result_to_case_result_skipped(t) ==
    /\ At(t, "add_result_to_case_result")
    /\ Returned(t, None, trace)
    /\ UNCHANGED TestManager_cache
    /\ Unchanged_but_manager

add_result_to_case_result(t) ==
    /\ At(t, "add_result_to_case_result")
    /\ Step(t, "api_add_result", "add_result_to_case_done",
            [task[t].loc EXCEPT !.test_id = task[t].ret])

add_result_to_case_done(t) ==
    /\ At(t, "add_result_to_case_done")
    /\ Returned(t, None, trace)
    /\ UNCHANGED TestManager_cache
    /\ Unchanged_but_manager

(***************************************************************************)
(* The callers' operations.                                                *)
(***************************************************************************)
Op(f, args) == [f |-> f, args |-> args]

Passed == [status |-> "passed"]

\* add_result_to_case(project_name, plan_name, suite_name, case_title, result)
\* with the default section_title
AddResult(project_name, plan_name, suite_name, case_title) ==
    Op("add_result_to_case",
       [NoArgs EXCEPT !.project_name = project_name, !.plan_name = plan_name,
                      !.suite_name = suite_name, !.case_title = case_title,
                      !.result = Passed, !.section_title = "All Test Cases"])

\* The resolvers of TestManager, called directly.
ResolveProject(name) == Op("get_project_id_by_name", [NoArgs EXCEPT !.name = name])
ResolveSuite(project_id, name) ==
    Op("get_or_create_suite_id", [NoArgs EXCEPT !.project_id = project_id, !.suite_name = name])
ResolvePlan(project_id, name) ==
    Op("get_or_create_plan_id", [NoArgs EXCEPT !.project_id = project_id, !.plan_name = name])
ResolveRun(plan_id, name, suite_id) ==
    Op("get_or_create_run_id",
       [NoArgs EXCEPT !.plan_id = plan_id, !.run_name = name, !.suite_id = suite_id])
ResolveSection(project_id, suite_id, title) ==
    Op("get_or_create_section_id",
       [NoArgs EXCEPT !.project_id = project_id, !.suite_id = suite_id,
                      !.section_title = title])
ResolveTest(run_id, title, project_id, suite_id, section_title) ==
    Op("get_or_create_test_id",
       [NoArgs EXCEPT !.run_id = run_id, !.case_title = title, !.project_id = project_id,
                      !.suite_id = suite_id, !.section_title = section_title])

\* The lookups of TestRailAPI, called directly.
LookupProject(name, b) ==
    Op("api_get_project_id_by_name", [NoArgs EXCEPT !.name = name, !.no_cache = b])
LookupSuite(project_id, name, b) ==
    Op("api_get_suite_id_by_name",
       [NoArgs EXCEPT !.project_id = project_id, !.suite_name = name, !.no_cache = b])
LookupPlan(project_id, name, b) ==
    Op("api_get_plan_id_by_name",
       [NoArgs EXCEPT !.project_id = project_id, !.plan_name = name, !.no_cache = b])
LookupRun(plan_id, name, b) ==
    Op("api_get_run_id_by_name",
       [NoArgs EXCEPT !.plan_id = plan_id, !.run_name = name, !.no_cache = b])
LookupSection(project_id, suite_id, title, b) ==
    Op("api_get_section_id_by_name",
       [NoArgs EXCEPT !.project_id = project_id, !.suite_id = suite_id,
                      !.section_title = title, !.no_cache = b])
LookupTest(run_id, title, b) ==
    Op("api_get_test_id_by_name",
       [NoArgs EXCEPT !.run_id = run_id, !.case_title = title, !.no_cache = b])

\* APIClient.request, called directly.
Request(req) == Op("request", [NoArgs EXCEPT !.req = req])

(***************************************************************************)
(* States of the remote service at the start.                              *)
(***************************************************************************)
\* Only project "Alpha" (id 1) exists.
Fresh ==
    [projects |-> <<[id |-> 1, name |-> "Alpha"]>>,
     suites |-> <<>>, plans |-> <<>>, entries |-> <<>>, sections |-> <<>>,
     cases |-> <<>>, tests |-> <<>>, results |-> <<>>]

\* Everything exists, each name twice; run 6 holds a selection of cases.
Populated ==
    [projects |-> <<[id |-> 1, name |-> "Alpha"], [id |-> 2, name |-> "Alpha"]>>,
     suites |-> <<[id |-> 5, name |-> "API", project_id |-> 1],
                  [id |-> 9, name |-> "API", project_id |-> 1]>>,
     plans |-> <<[id |-> 7, name |-> "Nightly", project_id |-> 1],
                 [id |-> 8, name |-> "Nightly", project_id |-> 1]>>,
     entries |-> <<[plan_id |-> 7, runs |-> <<>>],
                   [plan_id |-> 7,
                    runs |-> <<[id |-> 3, name |-> "API", suite_id |-> 5, include_all |-> TRUE],
                               [id |-> 4, name |-> "API", suite_id |-> 5, include_all |-> TRUE]>>],
                   [plan_id |-> 7,
                    runs |-> <<[id |-> 6, name |-> "Picked", suite_id |-> 5,
                                include_all |-> FALSE]>>]>>,
     sections |-> <<[id |-> 2, name |-> "All Test Cases", project_id |-> 1, suite_id |-> 5],
                    [id |-> 6, name |-> "All Test Cases", project_id |-> 1, suite_id |-> 5]>>,
     cases |-> <<[id |-> 1, title |-> "Login works", section_id |-> 2],
                 [id |-> 2, title |-> "Login works", section_id |-> 2]>>,
     tests |-> <<[id |-> 11, title |-> "Login works", run_id |-> 3],
                 [id |-> 12, title |-> "Login works", run_id |-> 3],
                 [id |-> 13, title |-> "Login works", run_id |-> 4],
                 [id |-> 14, title |-> "Login works", run_id |-> 4]>>,
     results |-> <<>>]

\* A plan named like the suite, with the project's ID; a suite with ID 0.
Colliding ==
    [projects |-> <<[id |-> 1, name |-> "Alpha"]>>,
     suites |-> <<[id |-> 0, name |-> "API", project_id |-> 1]>>,
     plans |-> <<[id |-> 1, name |-> "API", project_id |-> 1]>>,
     entries |-> <<[plan_id |-> 1,
                    runs |-> <<[id |-> 0, name |-> "Other", suite_id |-> 0,
                                include_all |-> TRUE]>>]>>,
     sections |-> <<>>, cases |-> <<>>, tests |-> <<>>, results |-> <<>>]

(***************************************************************************)
(* Scenarios: the remote state at the start, the operations the callers    *)
(* choose from, how many each invokes, and the responses that may be       *)
(* spoilt.                                                                 *)
(***************************************************************************)
Sequential == [t \in Tasks |-> IF t = 1 THEN MaxCalls ELSE 0]
Concurrent == [t \in Tasks |-> 1]
Long == [t \in Tasks |-> IF t = 1 THEN MaxCalls + 2 ELSE 0]

Scenarios ==
    { [name |-> "fresh", srv |-> Fresh, budget |-> Sequential, faults |-> MaxFaults],
      [name |-> "fresh2", srv |-> Fresh, budget |-> Concurrent, faults |-> 0],
      [name |-> "populated", srv |-> Populated, budget |-> Sequential, faults |-> 0],
      [name |-> "submissions", srv |-> Populated, budget |-> Sequential,
       faults |-> MaxFaults],
      [name |-> "resolvers", srv |-> Populated, budget |-> Sequential, faults |-> MaxFaults],
      [name |-> "populated2", srv |-> Populated, budget |-> Concurrent, faults |-> 0],
      [name |-> "lookups", srv |-> Populated, budget |-> Sequential, faults |-> 0],
      [name |-> "transport", srv |-> Fresh, budget |-> Long, faults |-> MaxFaults],
      [name |-> "colliding", srv |-> Colliding, budget |-> Long, faults |-> 0],
      [name |-> "samename", srv |-> Colliding, budget |-> Sequential, faults |-> 0],
      [name |-> "contended", srv |-> Populated, budget |-> Concurrent,
       faults |-> MaxFaults] }

Menu(sc, t) ==
    CASE sc = "fresh" ->
            { AddResult(p, "Nightly", "API", "Login works") : p \in {"Alpha", "Beta"} }
            \cup { ResolveProject("Alpha"), ResolveProject("Beta"),
                   ResolveSuite(1, "API"), ResolvePlan(1, "Nightly") }
      [] sc = "fresh2" ->
            { ResolveProject("Alpha"), ResolveSuite(1, "API"), ResolvePlan(1, "Nightly") }
      [] sc = "populated" ->
            { AddResult("Alpha", "Nightly", "API", c) : c \in {"Login works", "Logout works"} }
            \cup { ResolveProject("Alpha"),
                   ResolveSuite(1, "API"), ResolveSuite(1, "Smoke"),
                   ResolvePlan(1, "Nightly"), ResolvePlan(1, "Weekly"),
                   ResolveRun(7, "API", 5), ResolveRun(7, "Smoke", 5),
                   ResolveSection(1, 5, "All Test Cases"), ResolveSection(1, 5, "Extra"),
                   ResolveTest(3, "Login works", 1, 5, "All Test Cases"),
                   ResolveTest(3, "Logout works", 1, 5, "All Test Cases"),
                   ResolveTest(6, "Logout works", 1, 5, "All Test Cases") }
      [] sc = "submissions" ->
            { AddResult("Alpha", "Nightly", "API", c) : c \in {"Login works", "Logout works"} }
            \cup { ResolveProject("Alpha"),
                   ResolveTest(3, "Login works", 1, 5, "All Test Cases"),
                   ResolveTest(3, "Logout works", 1, 5, "All Test Cases"),
                   ResolveTest(6, "Logout works", 1, 5, "All Test Cases") }
      [] sc = "resolvers" ->
            { ResolveSuite(1, "API"), ResolveSuite(1, "Smoke"),
              ResolvePlan(1, "Nightly"), ResolvePlan(1, "Weekly"),
              ResolveRun(7, "API", 5), ResolveRun(7, "Smoke", 5),
              ResolveSection(1, 5, "All Test Cases"), ResolveSection(1, 5, "Extra") }
      [] sc = "populated2" ->
            { ResolveSuite(1, "Smoke"), ResolvePlan(1, "Weekly"), ResolveRun(7, "Smoke", 5),
              ResolveSection(1, 5, "Extra"),
              ResolveTest(3, "Logout works", 1, 5, "All Test Cases"),
              ResolveSuite(1, "API") }
      [] sc = "lookups" ->
            UNION { { LookupProject("Alpha", b), LookupProject("Beta", b),
                      LookupSuite(1, "API", b), LookupSuite(1, "Smoke", b),
                      LookupPlan(1, "Nightly", b), LookupPlan(1, "Weekly", b),
                      LookupRun(7, "API", b), LookupRun(7, "Smoke", b),
                      LookupSection(1, 5, "All Test Cases", b),
                      LookupSection(1, 5, "Extra", b),
                      LookupTest(3, "Login works", b),
                      LookupTest(3, "Logout works", b) } : b \in BOOLEAN }
      [] sc = "transport" ->
            { Request(get_suites(1, b)) : b \in BOOLEAN }
            \cup { Request(Post(<<"add_suite", 1>>,
                                [name |-> "API", description |-> "Created automatically by script"])) }
      [] sc = "colliding" ->
            { LookupPlan(1, "API", FALSE) }
            \cup { LookupSuite(1, "API", b) : b \in BOOLEAN }
            \cup { LookupRun(1, "API", b) : b \in BOOLEAN }
      [] sc = "contended" ->
            { ResolveSuite(1, "Smoke"),
              ResolveTest(3, "Logout works", 1, 5, "All Test Cases") }
            \cup (IF t = 1 THEN { AddResult("Alpha", "Nightly", "API", "Login works") }
                  ELSE {})
      [] sc = "samename" ->
            { AddResult("Alpha", "API", "API", "Login works"),
              ResolvePlan(1, "API"), ResolveSuite(1, "API"), ResolveRun(1, "Other", 0) }

(***************************************************************************)
(* An idle task whose caller has invocations left starts one of the        *)
(* operations of its menu, when the event loop is free.                    *)
(***************************************************************************)
Cold == /\ APIClient_cache = EmptyDict
        /\ TestRailAPI_cache = EmptyDict
        /\ TestManager_cache = EmptyCaches

NewRecord(t, op) ==
    [op |-> op, status |-> "running", value |-> None, error |-> "", reqs |-> <<>>,
     overlaps |-> {<<u, Len(trace[u])>> : u \in {v \in Tasks \ {t} : ~Idle(v)}},
     adjacent |-> ~task[t].dirty, cold |-> Cold]

Start(t) ==
    /\ cur = NoTask
    /\ Idle(t)
    /\ budget[t] > 0
    /\ \E op \in Menu(scenario, t) :
         /\ task' = [u \in Tasks |->
                        IF u = t
                        THEN [IdleTask EXCEPT !.pc = op.f, !.loc = op.args]
                        ELSE [task[u] EXCEPT !.dirty = TRUE]]
         /\ trace' = [u \in Tasks |->
                        IF u = t THEN Append(trace[t], NewRecord(t, op))
                        ELSE IF Idle(u) THEN trace[u]
                        ELSE [trace[u] EXCEPT ![Len(trace[u])].overlaps =
                                                    @ \cup {<<t, Len(trace[t]) + 1>>}]]
    /\ cur' = t
    /\ budget' = [budget EXCEPT ![t] = @ - 1]
    /\ UNCHANGED <<srv, net, faults, scenario, APIClient_cache, TestRailAPI_cache,
                   TestManager_cache>>

Init ==
    /\ \E sc \in Scenarios :
         /\ scenario = sc.name
         /\ srv = sc.srv
         /\ budget = sc.budget
         /\ faults = sc.faults
    /\ APIClient_cache = EmptyDict
    /\ TestRailAPI_cache = EmptyDict
    /\ TestManager_cache = EmptyCaches
    /\ task = [t \in Tasks |-> IdleTask]
    /\ net = [t \in Tasks |-> NetIdle]
    /\ trace = [t \in Tasks |-> <<>>]
    /\ cur = NoTask

\* A step of task t: of its code, or of the exchange it awaits.
Run(t) ==
    \/ Serve(t)
    \/ request(t)
    \/ request_response(t)
    \/ api_get_run_id_by_name(t)
    \/ api_get_run_id_by_name_scan(t)
    \/ api_get_project_id_by_name(t)
    \/ api_get_project_id_by_name_scan(t)
    \/ api_get_suite_id_by_name(t)
    \/ api_get_suite_id_by_name_scan(t)
    \/ api_get_section_id_by_name(t)
    \/ api_get_section_id_by_name_scan(t)
    \/ api_get_plan_id_by_name(t)
    \/ api_get_plan_id_by_name_scan(t)
    \/ api_get_test_id_by_name(t)
    \/ api_get_test_id_by_name_scan(t)
    \/ api_create_test_case(t)
    \/ api_create_test_case_ret(t)
    \/ api_create_section(t)
    \/ api_create_section_ret(t)
    \/ api_create_suite(t)
    \/ api_create_suite_ret(t)
    \/ api_add_result(t)
    \/ api_add_result_ret(t)
    \/ api_add_plan(t)
    \/ api_add_plan_ret(t)
    \/ api_add_plan_entry(t)
    \/ api_add_plan_entry_ret(t)
    \/ get_project_id_by_name(t)
    \/ get_project_id_by_name_ret(t)
    \/ get_or_create_suite_id(t)
    \/ get_or_create_suite_id_or(t)
    \/ get_or_create_suite_id_set(t)
    \/ get_or_create_plan_id(t)
    \/ get_or_create_plan_id_or(t)
    \/ get_or_create_plan_id_set(t)
    \/ get_or_create_run_id(t)
    \/ get_or_create_run_id_if(t)
    \/ get_or_create_run_id_set(t)
    \/ get_or_create_section_id(t)
    \/ get_or_create_section_id_or(t)
    \/ get_or_create_section_id_set(t)
    \/ get_or_create_test_id(t)
    \/ get_or_create_test_id_if(t)
    \/ get_or_create_test_id_create(t)
    \/ get_or_create_test_id_again(t)
    \/ get_or_create_test_id_check(t)
    \/ add_result_to_case(t)
    \/ add_result_to_case_plan(t)
    \/ add_result_to_case_suite(t)
    \/ add_result_to_case_run(t)
    \/ add_result_to_case_test(t)
    \/ add_result_to_case_result(t)
    \/ add_result_to_case_done(t)

Next == \E t \in Tasks : Start(t) \/ Cancel(t) \/ Run(t)

Spec == Init /\ [][Next]_vars

\* The starts in which every caller has calls to make.
BusyInit == Init /\ \A t \in Tasks : budget[t] > 0

\* The event loop resumes every task whose awaited response is there, and the
\* remote answers every request; nothing obliges a caller to start or cancel.
FairSpec ==
    /\ BusyInit
    /\ [][Next]_vars
    /\ \A t \in Tasks : WF_vars(Run(t))

(***************************************************************************)
(* Properties.  They are stated over the invocation history: trace[t][i]   *)
(* is the i-th invocation task t started.                                  *)
(***************************************************************************)
Invocations == UNION {{<<t, i>> : i \in 1..Len(trace[t])} : t \in Tasks}

Inv(p) == trace[p[1]][p[2]]

Done(r) == r.status # "running"

Sent(r) == SelectSeq(r.reqs, LAMBDA q : q.remote)

Endpoints(log) == [k \in 1..Len(log) |-> log[k].endpoint[1]]

Posts(r) == SelectSeq(r.reqs, LAMBDA q : q.method = "POST")

CallsTo(r, name) == SelectSeq(r.reqs, LAMBDA q : q.remote /\ q.endpoint[1] = name)

Unspoilt(r) == \A k \in 1..Len(r.reqs) : ~r.reqs[k].spoilt

Solo(r) == r.overlaps = {}

CreateCall ==
    [get_or_create_suite_id   |-> "add_suite",
     get_or_create_plan_id    |-> "add_plan",
     get_or_create_run_id     |-> "add_plan_entry",
     get_or_create_section_id |-> "add_section",
     get_or_create_test_id    |-> "add_case"]

GetOrCreate == DOMAIN CreateCall

(* C1: when two resolutions of the same key that does not exist yet are in *)
(* flight at once, one creation call is issued for the key in total and    *)
(* both callers get the same ID.                                           *)
C1_SingleFlight ==
    \A i \in 1..Len(trace[1]), j \in 1..Len(trace[2]) :
        LET a == trace[1][i]
            b == trace[2][j]
            created == Len(CallsTo(a, CreateCall[a.op.f])) + Len(CallsTo(b, CreateCall[a.op.f]))
        IN  ( /\ a.op.f \in GetOrCreate
              /\ a.op = b.op
              /\ <<2, j>> \in a.overlaps
              /\ a.status = "returned"
              /\ b.status = "returned"
              /\ created > 0 )
            => /\ created = 1
               /\ a.value = b.value

(* C2: from empty caches and an empty remote project, a result submission  *)
(* whose responses all arrive intact succeeds after issuing, in order:     *)
(* list-plans, create-plan, list-suites, create-suite, get-plan,           *)
(* add-plan-entry, list-tests, list-sections, create-section,              *)
(* create-test-case, list-tests, add-result (after the project lookup).    *)
EndToEndCalls ==
    <<"get_projects", "get_plans", "add_plan", "get_suites", "add_suite", "get_plan",
      "add_plan_entry", "get_tests", "get_sections", "add_section", "add_case",
      "get_tests", "add_result">>

C2_EndToEnd ==
    \A p \in Invocations :
        LET r == Inv(p)
        IN  ( /\ scenario = "fresh"
              /\ p[2] = 1
              /\ r.op = AddResult("Alpha", "Nightly", "API", "Login works")
              /\ r.cold
              /\ Solo(r)
              /\ Unspoilt(r)
              /\ Done(r) )
            => /\ r.status = "returned"
               /\ Endpoints(Sent(r)) = EndToEndCalls

(* C3: when get_or_create_test_id has created the test case and the remote *)
(* lists the new test in the run, the lookup made after the creation sees  *)
(* it and the resolver returns its ID.                                     *)
C3_RequeryFindsNewTest ==
    \A p \in Invocations :
        LET r == Inv(p)
            a == r.op.args
            listed == {srv.tests[k] : k \in {n \in 1..Len(srv.tests) :
                          /\ srv.tests[n].run_id = a.run_id
                          /\ srv.tests[n].title = a.case_title}}
        IN  ( /\ r.op.f = "get_or_create_test_id"
              /\ Done(r)
              /\ Unspoilt(r)
              /\ \E k \in 1..Len(r.reqs) :
                    r.reqs[k].endpoint[1] = "add_case" /\ r.reqs[k].status = "ok"
              /\ listed # {} )
            => /\ r.status = "returned"
               /\ \E x \in listed : x.id = r.value

(* C4: a resolution repeated by the same caller right after it returned    *)
(* gives the same ID; a get_or_create_* repeats without any remote call,   *)
(* and the two project resolutions issue at most one list-projects call.   *)
Resolvers == GetOrCreate \cup {"get_project_id_by_name"}

C4_Idempotent ==
    \A t \in Tasks : \A i \in 1..(Len(trace[t]) - 1) :
        LET a == trace[t][i]
            b == trace[t][i + 1]
        IN  ( /\ a.op.f \in Resolvers
              /\ a.op = b.op
              /\ Solo(a) /\ Solo(b) /\ b.adjacent
              /\ a.status = "returned"
              /\ Done(b) )
            => /\ b.status = "returned"
               /\ b.value = a.value
               /\ IF a.op.f = "get_project_id_by_name"
                  THEN Len(CallsTo(a, "get_projects")) + Len(CallsTo(b, "get_projects")) <= 1
                  ELSE Sent(b) = <<>>

\* A resolver that created its entity is repeated and answers from the cache;
\* a project is resolved twice with one list-projects call.
C4_Witness ==
    /\ \E i \in 1..(Len(trace[1]) - 1) :
          LET a == trace[1][i]
              b == trace[1][i + 1]
          IN  /\ a.op.f \in GetOrCreate
              /\ a.op = b.op
              /\ Len(CallsTo(a, CreateCall[a.op.f])) = 1
              /\ a.status = "returned" /\ b.status = "returned"
              /\ Truthy(b.value)
              /\ Sent(b) = <<>>

C4_WitnessProject ==
    \E i \in 1..(Len(trace[1]) - 1) :
        LET a == trace[1][i]
            b == trace[1][i + 1]
        IN  /\ a.op.f = "get_project_id_by_name"
            /\ a.op = b.op
            /\ Len(CallsTo(a, "get_projects")) = 1
            /\ b.status = "returned" /\ b.value = 1

(* C5: a lookup or GET request that bypasses the caches always issues a     *)
(* remote call, and the same lookup repeated right after it without the    *)
(* bypass returns the same (fresh) value without a remote call.            *)
Lookups ==
    {"api_get_project_id_by_name", "api_get_suite_id_by_name", "api_get_plan_id_by_name",
     "api_get_section_id_by_name", "api_get_test_id_by_name", "api_get_run_id_by_name"}

Bypasses(op) ==
    \/ op.f \in Lookups /\ op.args.no_cache
    \/ op.f = "request" /\ op.args.req.method = "GET" /\ op.args.req.no_cache

WithoutBypass(op) == [op EXCEPT !.args.no_cache = FALSE, !.args.req.no_cache = FALSE]

C5_BypassRefreshes ==
    /\ \A p \in Invocations :
          (Bypasses(Inv(p).op) /\ Done(Inv(p))) => Len(Sent(Inv(p))) = 1
    /\ \A t \in Tasks : \A i \in 1..(Len(trace[t]) - 1) :
          LET a == trace[t][i]
              b == trace[t][i + 1]
          IN  ( /\ Bypasses(a.op)
                /\ b.op = WithoutBypass(a.op)
                /\ Solo(a) /\ Solo(b) /\ b.adjacent
                /\ a.status = "returned"
                /\ Done(b) )
              => /\ b.status = "returned"
                 /\ b.value = a.value
                 /\ Sent(b) = <<>>

(* C6: from empty caches, when the list a suite, plan or section resolver   *)
(* reads has no entity of the requested name, the resolver issues exactly  *)
(* one creation call and returns the ID carried by its response.           *)
Wanted(op) ==
    CASE op.f \in {"get_or_create_suite_id", "api_get_suite_id_by_name"} -> op.args.suite_name
      [] op.f \in {"get_or_create_plan_id", "api_get_plan_id_by_name"} -> op.args.plan_name
      [] op.f \in {"get_or_create_section_id", "api_get_section_id_by_name"} ->
            op.args.section_title
      [] op.f \in {"get_or_create_run_id", "api_get_run_id_by_name"} -> op.args.run_name
      [] op.f \in {"get_or_create_test_id", "api_get_test_id_by_name"} -> op.args.case_title
      [] op.f = "add_result_to_case" -> op.args.project_name
      [] OTHER -> op.args.name

Called(x) == IF "name" \in DOMAIN x THEN x.name ELSE x.title

Matching(items, name) == SelectSeq(items, LAMBDA x : Called(x) = name)

C6_CreateOnAbsence ==
    \A p \in Invocations :
        LET r == Inv(p)
        IN  ( /\ r.op.f \in {"get_or_create_suite_id", "get_or_create_plan_id",
                             "get_or_create_section_id"}
              /\ r.cold
              /\ Solo(r)
              /\ Done(r)
              /\ Len(r.reqs) >= 1
              /\ r.reqs[1].status = "ok"
              /\ Matching(r.reqs[1].body, Wanted(r.op)) = <<>> )
            => /\ Len(Posts(r)) = 1
               /\ Len(CallsTo(r, CreateCall[r.op.f])) = 1
               /\ LET c == CallsTo(r, CreateCall[r.op.f])[1]
                  IN  (c.status = "ok" /\ "id" \in DOMAIN c.body)
                      => /\ r.status = "returned"
                         /\ r.value = c.body.id

\* A section is created under an existing suite whose section list is not
\* empty, and the resolver returns the new section's ID.
C6_Witness ==
    \E p \in Invocations :
        LET r == Inv(p)
        IN  /\ r.op.f = "get_or_create_section_id"
            /\ r.cold
            /\ r.status = "returned"
            /\ Len(r.reqs) = 2
            /\ r.reqs[1].body # <<>>
            /\ Matching(r.reqs[1].body, Wanted(r.op)) = <<>>
            /\ r.reqs[2].endpoint[1] = "add_section"
            /\ r.value = r.reqs[2].body.id
            /\ Truthy(r.value)

(* C7: when the list a lookup by name reads holds several entities of the  *)
(* requested name, the lookup returns the ID of the first of them in the   *)
(* order of the response, and issues no creation call.                     *)
RECURSIVE Flat(_)
Flat(entries) == IF entries = <<>> THEN <<>> ELSE Head(entries).runs \o Flat(Tail(entries))

Listing(r) ==
    LET body == r.reqs[1].body
    IN  IF r.op.f # "api_get_run_id_by_name" THEN body
        ELSE IF "entries" \in DOMAIN body THEN Flat(body.entries)
        ELSE <<>>

C7_FirstMatchWins ==
    \A p \in Invocations :
        LET r == Inv(p)
        IN  ( /\ r.op.f \in Lookups
              /\ r.status = "returned"
              /\ Len(r.reqs) = 1
              /\ Matching(Listing(r), Wanted(r.op)) # <<>> )
            => /\ r.value = Matching(Listing(r), Wanted(r.op))[1].id
               /\ Posts(r) = <<>>

\* One caller looked up a run and a test, each among two of the same name.
C7_Witness ==
    \E i, j \in 1..Len(trace[1]) :
        LET a == trace[1][i]
            b == trace[1][j]
            ma == Matching(Listing(a), Wanted(a.op))
            mb == Matching(Listing(b), Wanted(b.op))
        IN  /\ a.op.f = "api_get_run_id_by_name"
            /\ b.op.f = "api_get_test_id_by_name"
            /\ a.status = "returned" /\ b.status = "returned"
            /\ Len(a.reqs) = 1 /\ Len(b.reqs) = 1
            /\ Len(ma) >= 2 /\ ma[1].id # ma[2].id /\ a.value = ma[1].id
            /\ Len(mb) >= 2 /\ mb[1].id # mb[2].id /\ b.value = mb[1].id

(* C8: add_result_to_case for a project name that is not in the project    *)
(* list fails with an error and issues no creation and no result call.     *)
C8_ProjectNeverCreated ==
    \A p \in Invocations :
        LET r == Inv(p)
        IN  ( /\ r.op.f = "add_result_to_case"
              /\ Done(r)
              /\ Len(r.reqs) >= 1
              /\ r.reqs[1].endpoint[1] = "get_projects"
              /\ r.reqs[1].status \in {"ok", "hit"}
              /\ Matching(r.reqs[1].body, Wanted(r.op)) = <<>> )
            => /\ r.status = "raised"
               /\ r.error = "ValueError"
               /\ Len(r.reqs) = 1
               /\ Posts(r) = <<>>

\* A result is submitted for a project the remote does not list; nothing was
\* added to the remote.
C8_Witness ==
    \E p \in Invocations :
        LET r == Inv(p)
        IN  /\ r.op.f = "add_result_to_case"
            /\ r.op.args.project_name = "Beta"
            /\ r.status = "raised"
            /\ Len(r.reqs) = 1
            /\ r.reqs[1].remote
            /\ r.reqs[1].status = "ok"
            /\ r.reqs[1].body # <<>>
            /\ srv = Fresh

(* C9: when the lookup finds nothing and the creation response carries no  *)
(* usable ID, the resolver raises an error, does not return None, and      *)
(* stores no cache entry for the key.                                      *)
CacheOf ==
    [get_or_create_suite_id   |-> "suites",
     get_or_create_plan_id    |-> "plans",
     get_or_create_run_id     |-> "runs",
     get_or_create_section_id |-> "sections",
     get_or_create_test_id    |-> "tests"]

KeyOf(op) ==
    CASE op.f = "get_or_create_suite_id" -> suite_key(op.args)
      [] op.f = "get_or_create_plan_id" -> plan_key(op.args)
      [] op.f = "get_or_create_run_id" -> run_key(op.args)
      [] op.f = "get_or_create_section_id" -> section_key(op.args)
      [] op.f = "get_or_create_test_id" -> test_key(op.args)

C9_NoSentinel ==
    \A p \in Invocations :
        LET r == Inv(p)
        IN  ( /\ r.op.f \in GetOrCreate
              /\ r.cold
              /\ Done(r)
              /\ \E k \in 1..Len(r.reqs) :
                    /\ r.reqs[k].endpoint[1] = CreateCall[r.op.f]
                    /\ r.reqs[k].status = "ok"
                    /\ "id" \notin DOMAIN r.reqs[k].body )
            => /\ r.status = "raised"
               /\ KeyOf(r.op) \notin DOMAIN TestManager_cache[CacheOf[r.op.f]]

(* C10: the transport cache holds responses of GET requests only, and      *)
(* every request of another method goes to the remote service.             *)
C10_TransportCachesGetOnly ==
    /\ \A k \in DOMAIN APIClient_cache : k[1] = "GET"
    /\ \A p \in Invocations : \A k \in 1..Len(Inv(p).reqs) :
          Inv(p).reqs[k].method # "GET" => Inv(p).reqs[k].remote

\* The same POST was issued twice and a GET response is cached: both POSTs
\* reached the remote, which created two suites.
C10_Witness ==
    /\ APIClient_cache # EmptyDict
    /\ \E i, j \in 1..Len(trace[1]) :
          LET a == trace[1][i]
              b == trace[1][j]
          IN  /\ i < j
              /\ a.op.f = "request" /\ a.op = b.op
              /\ a.op.args.req.method = "POST"
              /\ a.status = "returned" /\ b.status = "returned"
              /\ a.reqs[1].remote /\ b.reqs[1].remote
              /\ a.value.id # b.value.id

(* C11: a request that ends with a non-success status or a failed          *)
(* connection raises and leaves the transport cache exactly as it was,     *)
(* also when it was a bypassing GET for a key that had an entry; a         *)
(* successful GET stores its response under its key and changes no other.  *)
Resumes(t) ==
    /\ task[t].pc = "request_await"
    /\ net[t].state = "resp"
    /\ net'[t].state = "idle"
    /\ Last(trace', t).reqs[Len(Last(trace', t).reqs)].status # "cancelled"

C11_FailedRequestKeepsCache ==
    [][\A t \in Tasks :
          Resumes(t) =>
             LET req == task[t].loc.req
             IN  IF net[t].status # 200
                 THEN /\ APIClient_cache' = APIClient_cache
                      /\ Last(trace', t).status = "raised"
                      /\ Last(trace', t).error \in {"RuntimeError", "ClientError"}
                 ELSE req.method = "GET" =>
                         /\ cache_key(req) \in DOMAIN APIClient_cache'
                         /\ APIClient_cache'[cache_key(req)] = net[t].body
                         /\ \A k \in DOMAIN APIClient_cache' \ {cache_key(req)} :
                               k \in DOMAIN APIClient_cache
                               /\ APIClient_cache'[k] = APIClient_cache[k]]_vars

\* A GET was answered and cached; the same GET with the bypass then failed,
\* and the cache still holds the first answer.
C11_Witness ==
    \E i \in 1..(Len(trace[1]) - 1) :
        LET a == trace[1][i]
            b == trace[1][i + 1]
        IN  /\ a.op.f = "request" /\ b.op.f = "request"
            /\ a.op.args.req.method = "GET"
            /\ b.op.args.req = [a.op.args.req EXCEPT !.no_cache = TRUE]
            /\ a.status = "returned"
            /\ b.status = "raised"
            /\ b.reqs[1].remote
            /\ cache_key(a.op.args.req) \in DOMAIN APIClient_cache
            /\ APIClient_cache[cache_key(a.op.args.req)] = a.value

(* C12: once a resolver cache of TestManager holds an ID for a key, the    *)
(* stored value never changes: every resolution of the key that returned   *)
(* gave the ID the cache holds, so all of them gave one and the same ID.   *)
C12_StableMapping ==
    \A p \in Invocations :
        LET r == Inv(p)
        IN  ( /\ r.op.f \in GetOrCreate
              /\ r.status = "returned" )
            => /\ KeyOf(r.op) \in DOMAIN TestManager_cache[CacheOf[r.op.f]]
               /\ TestManager_cache[CacheOf[r.op.f]][KeyOf(r.op)] = r.value
               /\ \A q \in Invocations :
                     (Inv(q).op = r.op /\ Inv(q).status = "returned")
                     => Inv(q).value = r.value

(* C13: an add_result_to_case that returned has issued exactly one         *)
(* add-result call, as its last request; the call is for the test ID that  *)
(* its fifth step returned; one that failed has issued none, unless the    *)
(* add-result call is the one that failed.                                 *)
SubmitsTo(t) ==
    LET r == Last(trace, t)
        results == CallsTo(r, "add_result")
    IN  (~Idle(t) /\ r.op.f = "add_result_to_case" /\ results # <<>>) =>
           results[1].endpoint = <<"add_result", task[t].loc.test_id>>

TakesResolvedTest(t) ==
    (At(t, "add_result_to_case_result") /\ task'[t] # task[t]) =>
       task'[t].loc.test_id = task[t].ret

OneResultCall ==
    \A p \in Invocations :
        LET r == Inv(p)
            n == Len(r.reqs)
            results == CallsTo(r, "add_result")
        IN  r.op.f = "add_result_to_case" =>
               /\ r.status = "returned" =>
                     /\ Len(results) = 1
                     /\ r.reqs[n] = results[1]
                     /\ r.reqs[n].status = "ok"
                     /\ r.reqs[n].data = r.op.args.result
               /\ r.status = "raised" =>
                     \/ results = <<>>
                     \/ /\ Len(results) = 1
                        /\ r.reqs[n] = results[1]
                        /\ r.reqs[n].status \in {"error", "cancelled"}

C13_OneResultCall ==
    /\ [](OneResultCall /\ \A t \in Tasks : SubmitsTo(t))
    /\ [][\A t \in Tasks : TakesResolvedTest(t)]_vars

\* One caller submitted a result with success and then one that failed in its
\* add-result call; the remote holds the one result.
C13_Witness ==
    \E i, j \in 1..Len(trace[1]) :
        LET a == trace[1][i]
            b == trace[1][j]
        IN  /\ a.op.f = "add_result_to_case" /\ b.op.f = "add_result_to_case"
            /\ a.status = "returned"
            /\ Len(CallsTo(a, "add_result")) = 1
            /\ b.status = "raised"
            /\ Len(CallsTo(b, "add_result")) = 1
            /\ Len(srv.results) = 1

(* C14: when a remote call of an add_result_to_case fails, the invocation  *)
(* issues no further request, the caller gets the error the transport      *)
(* raised, and what earlier steps created stays on the remote.             *)
TransportError(q) == IF q.body.error = "connection" THEN "ClientError" ELSE "RuntimeError"

Created(q) ==
    LET e == q.endpoint[1]
    IN  CASE e = "add_plan" -> HasId(srv.plans, q.body.id)
          [] e = "add_suite" -> HasId(srv.suites, q.body.id)
          [] e = "add_section" -> HasId(srv.sections, q.body.id)
          [] e = "add_case" -> HasId(srv.cases, q.body.id)
          [] e = "add_plan_entry" -> HasId(Flat(srv.entries), q.body.runs[1].id)
          [] OTHER -> TRUE

C14_FirstFailureAborts ==
    \A p \in Invocations :
        LET r == Inv(p)
            n == Len(r.reqs)
        IN  r.op.f = "add_result_to_case" =>
               \A k \in 1..n :
                  /\ r.reqs[k].status = "error" =>
                        /\ k = n
                        /\ r.status = "raised"
                        /\ r.error = TransportError(r.reqs[k])
                  /\ (r.reqs[k].status = "ok" /\ ~r.reqs[k].spoilt) => Created(r.reqs[k])

\* A submission created the plan and the suite, then a request failed: it is
\* the last request, and the plan and the suite are still on the remote.
C14_Witness ==
    \E p \in Invocations :
        LET r == Inv(p)
            n == Len(r.reqs)
        IN  /\ r.op.f = "add_result_to_case"
            /\ r.status = "raised"
            /\ r.error = "RuntimeError"
            /\ n >= 5
            /\ r.reqs[n].status = "error"
            /\ Len(CallsTo(r, "add_plan")) = 1
            /\ Len(CallsTo(r, "add_suite")) = 1
            /\ srv.plans # <<>> /\ srv.suites # <<>>

(* C15: an ID obtained for an entity of one type is an ID the remote       *)
(* service reported for an entity of that type and name: this holds for    *)
(* every ID a lookup returned and every ID a resolver cache holds, also    *)
(* when a plan and a suite of one project, or a run and a suite, share a   *)
(* name.                                                                   *)
Reported(kind, id, name) ==
    LET items == IF kind = "runs" THEN Flat(srv.entries) ELSE srv[kind]
    IN  \E k \in 1..Len(items) : items[k].id = id /\ Called(items[k]) = name

KindOf ==
    [api_get_project_id_by_name |-> "projects",
     api_get_suite_id_by_name   |-> "suites",
     api_get_plan_id_by_name    |-> "plans",
     api_get_section_id_by_name |-> "sections",
     api_get_test_id_by_name    |-> "tests",
     api_get_run_id_by_name     |-> "runs"]

C15_TypedIds ==
    /\ \A p \in Invocations :
          LET r == Inv(p)
          IN  (r.op.f \in Lookups /\ r.status = "returned" /\ r.value # None)
              => Reported(KindOf[r.op.f], r.value, Wanted(r.op))
    /\ \A kind \in {"suites", "plans", "runs", "sections", "tests"} :
          \A key \in DOMAIN TestManager_cache[kind] :
             TestManager_cache[kind][key] # None
             => Reported(kind, TestManager_cache[kind][key], key[Len(key)])
    /\ \A name \in DOMAIN TestManager_cache.projects :
          Reported("projects", TestManager_cache.projects[name], name)

(* C16: a get_or_create_* resolver issues its creation call only when the  *)
(* lookup found no entity of the requested name; when the list it read     *)
(* holds one, whatever its ID (0 included), no creation call is issued and *)
(* the ID found is returned.                                               *)
Scanned(r) ==
    LET body == r.reqs[1].body
    IN  IF r.op.f # "get_or_create_run_id" THEN body
        ELSE IF "entries" \in DOMAIN body THEN Flat(body.entries)
        ELSE <<>>

C16_CreationOnlyOnAbsence ==
    \A p \in Invocations :
        LET r == Inv(p)
        IN  ( /\ r.op.f \in GetOrCreate
              /\ r.cold
              /\ Solo(r)
              /\ Done(r)
              /\ Len(r.reqs) >= 1
              /\ r.reqs[1].status = "ok"
              /\ Matching(Scanned(r), Wanted(r.op)) # <<>> )
            => /\ CallsTo(r, CreateCall[r.op.f]) = <<>>
               /\ r.status = "returned"
               /\ r.value = Matching(Scanned(r), Wanted(r.op))[1].id

(* C17: when get_or_create_test_id has issued the create-test-case call    *)
(* and the lookup after it finds no test of the title, the resolver raises *)
(* an error, issues no further request, writes no entry for the (run,      *)
(* title) key into the tests cache (the key has none unless a concurrent   *)
(* resolution wrote one), and no add-result call is issued.                *)
Requery(r, k) ==
    /\ r.reqs[k].endpoint[1] = "get_tests"
    /\ r.reqs[k].status \in {"ok", "hit"}
    /\ \E j \in 1..(k - 1) : r.reqs[j].endpoint[1] = "add_case"
    /\ Matching(r.reqs[k].body, r.op.args.case_title) = <<>>

C17_FatalPostCreationMiss ==
    \A p \in Invocations :
        LET r == Inv(p)
            n == Len(r.reqs)
        IN  r.op.f \in {"get_or_create_test_id", "add_result_to_case"} =>
               \A k \in 1..n :
                  Requery(r, k) =>
                     /\ k = n
                     /\ Done(r) => (r.status = "raised" /\ r.error = "ValueError")
                     /\ Solo(r) => <<r.reqs[k].endpoint[2], r.op.args.case_title>>
                                       \notin DOMAIN TestManager_cache.tests
                     /\ CallsTo(r, "add_result") = <<>>

\* A submission created the test case, looked the test up again, read a list
\* without it, and failed.
C17_Witness ==
    \E p \in Invocations :
        LET r == Inv(p)
            n == Len(r.reqs)
        IN  /\ r.op.f = "add_result_to_case"
            /\ n >= 2
            /\ Requery(r, n)
            /\ Len(CallsTo(r, "add_case")) = 1
            /\ r.status = "raised"
            /\ r.error = "ValueError"
            /\ TestManager_cache.tests = EmptyDict

(* C18: get_or_create_run_id scans the runs of all entries of the plan, in *)
(* entry order then run order, for the first run of the requested name;    *)
(* when none matches it issues exactly one add-plan-entry call with name,  *)
(* suite_id, include_all = true and a description, and returns the ID of   *)
(* the first run of that response without a further lookup.                *)
C18_RunResolution ==
    \A p \in Invocations :
        LET r == Inv(p)
            a == r.op.args
            n == Len(r.reqs)
            found == Matching(Scanned(r), a.run_name)
        IN  ( /\ r.op.f = "get_or_create_run_id"
              /\ r.cold
              /\ Solo(r)
              /\ Done(r)
              /\ n >= 1
              /\ r.reqs[1].status = "ok"
              /\ "entries" \in DOMAIN r.reqs[1].body )
            => /\ r.reqs[1].endpoint = <<"get_plan", a.plan_id>>
               /\ found # <<>> =>
                     /\ TestRailAPI_cache[<<a.plan_id, a.run_name>>] = found[1].id
                     /\ found[1].id # 0 =>
                           (n = 1 /\ r.status = "returned" /\ r.value = found[1].id)
               /\ found = <<>> =>
                     /\ n = 2
                     /\ r.reqs[2].remote
                     /\ r.reqs[2].method = "POST"
                     /\ r.reqs[2].endpoint = <<"add_plan_entry", a.plan_id>>
                     /\ "description" \in DOMAIN r.reqs[2].data
                     /\ [k \in {"name", "suite_id", "include_all"} |-> r.reqs[2].data[k]]
                           = [name |-> a.run_name, suite_id |-> a.suite_id,
                              include_all |-> TRUE]
                     /\ (r.reqs[2].status = "ok" /\ "runs" \in DOMAIN r.reqs[2].body)
                           => /\ r.status = "returned"
                              /\ r.value = r.reqs[2].body.runs[1].id

\* A run was created in a plan whose entries hold runs of other names, and
\* a run was found among two of its name.
C18_Witness ==
    \E i, j \in 1..Len(trace[1]) :
        LET a == trace[1][i]
            b == trace[1][j]
        IN  /\ a.op.f = "get_or_create_run_id" /\ b.op.f = "get_or_create_run_id"
            /\ a.cold
            /\ a.status = "returned" /\ b.status = "returned"
            /\ Len(a.reqs) = 2
            /\ Len(Scanned(a)) >= 2
            /\ "runs" \in DOMAIN a.reqs[2].body
            /\ a.value = a.reqs[2].body.runs[1].id
            /\ Truthy(a.value)
            /\ Len(b.reqs) = 1
            /\ Len(Matching(Scanned(b), b.op.args.run_name)) >= 2
            /\ b.value = Matching(Scanned(b), b.op.args.run_name)[1].id

(* C19: one add_result_to_case has at most one request outstanding at any  *)
(* moment, and its steps start in the order project, plan, suite, run,     *)
(* test case, result; the run is resolved under the plan ID of step 2 with *)
(* the suite name as run name and the suite ID of step 3, and the test     *)
(* case under the run ID of step 4.                                        *)
StepOf(q) ==
    LET e == q.endpoint[1]
    IN  CASE e = "get_projects" -> 1
          [] e \in {"get_plans", "add_plan"} -> 2
          [] e \in {"get_suites", "add_suite"} -> 3
          [] e \in {"get_plan", "add_plan_entry"} -> 4
          [] e \in {"get_tests", "get_sections", "add_section", "add_case"} -> 5
          [] e = "add_result" -> 6

Holds(kind, key, id) ==
    key \in DOMAIN TestManager_cache[kind] /\ TestManager_cache[kind][key] = id

Chained(a, q) ==
    LET e == q.endpoint[1]
        c == TestManager_cache
        project_id == c.projects[a.project_name]
        plan_id == c.plans[<<project_id, a.plan_name>>]
    IN  CASE e \in {"get_plans", "add_plan", "get_suites", "add_suite"} ->
                Holds("projects", a.project_name, q.endpoint[2])
          [] e \in {"get_plan", "add_plan_entry"} ->
                /\ Holds("plans", <<project_id, a.plan_name>>, q.endpoint[2])
                /\ e = "add_plan_entry" =>
                      /\ q.data.name = a.suite_name
                      /\ Holds("suites", <<project_id, a.suite_name>>, q.data.suite_id)
          [] e \in {"get_tests", "add_result"} ->
                /\ Holds("runs", <<plan_id, a.suite_name>>,
                         IF e = "get_tests" THEN q.endpoint[2]
                         ELSE c.runs[<<plan_id, a.suite_name>>])
                /\ e = "add_result" =>
                      Holds("tests", <<c.runs[<<plan_id, a.suite_name>>], a.case_title>>,
                            q.endpoint[2])
          [] OTHER -> TRUE

C19_SequentialSteps ==
    \A p \in Invocations :
        LET r == Inv(p)
            n == Len(r.reqs)
        IN  r.op.f = "add_result_to_case" =>
               /\ \A k \in 1..n : r.reqs[k].status = "sent" => (k = n /\ ~Done(r))
               /\ \A j, k \in 1..n : j < k => StepOf(r.reqs[j]) <= StepOf(r.reqs[k])
               /\ Solo(r) => \A k \in 1..n : Chained(r.op.args, r.reqs[k])

\* A submission went through all six steps against a remote that holds every
\* entity, and a request of another submission is outstanding.
C19_Witness ==
    \E i, j \in 1..Len(trace[1]) :
        LET a == trace[1][i]
            b == trace[1][j]
        IN  /\ a.op.f = "add_result_to_case" /\ b.op.f = "add_result_to_case"
            /\ a.status = "returned"
            /\ Endpoints(a.reqs) = <<"get_projects", "get_plans", "get_suites", "get_plan",
                                     "get_tests", "add_result">>
            /\ b.status = "running"
            /\ Len(b.reqs) >= 3
            /\ b.reqs[Len(b.reqs)].status = "sent"

(* C20: a resolution that is cancelled or fails at an await writes nothing *)
(* into the resolver caches, so its key has no entry unless another        *)
(* resolution wrote one; and every other resolution of the same key,       *)
(* concurrent or later, completes, given that its requests are answered.   *)
Fails(t) ==
    /\ ~Idle(t)
    /\ Last(trace, t).op.f \in GetOrCreate
    /\ Len(trace'[t]) = Len(trace[t])
    /\ Last(trace', t).status = "raised"

PeerFailed(u) ==
    /\ ~Idle(u)
    /\ Last(trace, u).op.f \in GetOrCreate
    /\ \E p \in Invocations :
          /\ p[1] # u
          /\ Inv(p).op = Last(trace, u).op
          /\ Inv(p).status = "raised"

C20_FailureBlocksNobody ==
    /\ [][\A t \in Tasks :
             Fails(t) =>
                LET r == Last(trace', t)
                IN  /\ TestManager_cache' = TestManager_cache
                    /\ Solo(r) => KeyOf(r.op) \notin DOMAIN TestManager_cache'[CacheOf[r.op.f]]]_vars
    /\ \A u \in Tasks : PeerFailed(u) ~> Idle(u)

\* One resolution was cancelled while another of the same key was in flight;
\* the other one returned an ID and the cache holds it.
C20_Witness ==
    \E i \in 1..Len(trace[1]), j \in 1..Len(trace[2]) :
        LET a == trace[1][i]
            b == trace[2][j]
        IN  /\ a.op.f \in GetOrCreate
            /\ a.op = b.op
            /\ <<2, j>> \in a.overlaps
            /\ a.status = "raised"
            /\ a.error = "CancelledError"
            /\ b.status = "returned"
            /\ Truthy(b.value)
            /\ Holds(CacheOf[b.op.f], KeyOf(b.op), b.value)

(* C21: after a lookup with no_cache = True that was answered intact by    *)
(* the remote with a list holding no entity of the requested name (and so  *)
(* returned not-found), the same lookup made next without the bypass       *)
(* returns not-found too, not an ID remembered from an earlier response.   *)
FreshMiss(a) ==
    /\ a.op.f \in Lookups
    /\ a.op.args.no_cache
    /\ a.status = "returned"
    /\ a.value = None
    /\ Len(a.reqs) = 1
    /\ a.reqs[1].remote
    /\ a.reqs[1].status = "ok"
    /\ Unspoilt(a)
    /\ Matching(Listing(a), Wanted(a.op)) = <<>>

C21_FreshestResponse ==
    \A t \in Tasks : \A i \in 1..(Len(trace[t]) - 1) :
        LET a == trace[t][i]
            b == trace[t][i + 1]
        IN  ( /\ FreshMiss(a)
              /\ b.op = WithoutBypass(a.op)
              /\ Solo(a) /\ Solo(b) /\ b.adjacent
              /\ Done(b) )
            => /\ b.status = "returned"
               /\ b.value = None

(* C22: consecutive add_result_to_case invocations of one caller with the  *)
(* same project, plan, suite, section and case title, whose requests were  *)
(* all answered intact, issue at most one create-test-case call for the    *)
(* title in total, whether the earlier invocation returned or raised.      *)
CaseCreations(r) ==
    SelectSeq(CallsTo(r, "add_case"), LAMBDA q : q.data.title = r.op.args.case_title)

C22_NoDuplicateCases ==
    \A t \in Tasks : \A i \in 1..(Len(trace[t]) - 1) :
        LET a == trace[t][i]
            b == trace[t][i + 1]
        IN  ( /\ a.op.f = "add_result_to_case"
              /\ b.op = a.op
              /\ Solo(a) /\ Solo(b) /\ b.adjacent
              /\ Unspoilt(a) /\ Unspoilt(b)
              /\ Done(a) )
            => Len(CaseCreations(a)) + Len(CaseCreations(b)) <= 1

====
